---------------------------- MODULE Spec2Model ----------------------------
(***************************************************************************)
(* Model of libnodegl/node_render.c: the Render node of node.gl.           *)
(*                                                                         *)
(* A render node borrows a geometry, validates its attribute buffers,      *)
(* takes a reference on the geometry's index buffer, aggregates the        *)
(* attributes handed to the pass, initialises the pass and resolves one of *)
(* four draw procedures (render_init); per frame it updates the geometry   *)
(* and the pass (render_update) and issues bind / draw / unbind            *)
(* (render_draw); render_uninit releases what init derived.                *)
(*                                                                         *)
(* The collaborators of the file (hmap, pass, buffer reference counting,   *)
(* node creation, format and topology conversion) are not part of it; they *)
(* are modelled by their contract, and each of their results that the file *)
(* tests (a NULL, a negative return) is an input of the action.            *)
(***************************************************************************)
EXTENDS Integers, Sequences, FiniteSets, TLC

VARIABLES
    nodes,      \* the render nodes of the scene (ids)
    features,   \* gl->features: the capability flags of the context
    geometry,   \* struct geometry_priv of the geometry the nodes share
    buffers,    \* struct buffer_priv of every buffer node, by node id
    render,     \* struct render_priv of every render node
    state,      \* lifecycle position of every render node
    hist,       \* per render node: calls, acquisitions and releases so far
    gl_log,     \* pass bind/unbind and graphics-API calls issued so far
    last,       \* the last call: operation, node, return value, report
    nb_calls,   \* number of calls made so far
    buffers0    \* the buffers as they were before any call

vars == <<nodes, features, geometry, buffers, render, state, hist, gl_log,
          last, nb_calls, buffers0>>

----------------------------------------------------------------------------
(* Bounds of the model *)

NbNodes == 2          \* render nodes sharing the geometry in SpecShared
MaxCalls == 3         \* calls (init, uninit, update, draw, mutation) in a run
MaxSets == 2          \* ngli_hmap_set calls of one init that may fail

Nodes == 1..NbNodes

NULL == "NULL"

----------------------------------------------------------------------------
(* hmap: the ordered key/value container (hmap.h).  A struct hmap * is     *)
(* either NULL or a map; a map is the sequence of its entries in iteration *)
(* order, keys unique.                                                     *)

NULL_HMAP == [null |-> TRUE, entries |-> <<>>]

hmap(entries) == [null |-> FALSE, entries |-> entries]

hmap_keys(m) == {m.entries[i].key : i \in 1..Len(m.entries)}

\* ngli_hmap_get: the data stored under key, NULL when there is none
hmap_get(m, key) ==
    IF \E i \in 1..Len(m.entries) : m.entries[i].key = key
    THEN LET i == CHOOSE j \in 1..Len(m.entries) : m.entries[j].key = key
         IN m.entries[i].data
    ELSE NULL

\* ngli_hmap_set: insert, or overwrite the data of a key already present
hmap_set(m, key, data) ==
    IF \E i \in 1..Len(m.entries) : m.entries[i].key = key
    THEN hmap([i \in 1..Len(m.entries) |->
                  IF m.entries[i].key = key
                  THEN [key |-> key, data |-> data]
                  ELSE m.entries[i]])
    ELSE hmap(Append(m.entries, [key |-> key, data |-> data]))

----------------------------------------------------------------------------
(* Collaborators' conversions *)

NGLI_FEATURE_DRAW_INSTANCED == "NGLI_FEATURE_DRAW_INSTANCED"
NGLI_FEATURE_INSTANCED_ARRAY == "NGLI_FEATURE_INSTANCED_ARRAY"

\* ngli_format_get_gl_texture_format(gl, data_format, NULL, NULL, &type)
gl_texture_format_type(data_format) ==
    CASE data_format = "NGLI_FORMAT_R16_UNORM" -> "GL_UNSIGNED_SHORT"
      [] data_format = "NGLI_FORMAT_R32_UINT" -> "GL_UNSIGNED_INT"
      [] OTHER -> "GL_NONE"

\* ngli_topology_get_gl_topology
gl_topology_of(topology) ==
    CASE topology = "NGLI_PRIMITIVE_TOPOLOGY_TRIANGLE_LIST" -> "GL_TRIANGLES"
      [] topology = "NGLI_PRIMITIVE_TOPOLOGY_LINE_LIST" -> "GL_LINES"
      [] OTHER -> "GL_NONE"

\* ngli_node_buffer_ref / ngli_node_buffer_unref on a buffer node
buffer_ref(bufs, id) ==
    [bufs EXCEPT ![id].buffer_refcount = @ + 1]

buffer_unref(bufs, id) ==
    [bufs EXCEPT ![id].buffer_refcount = @ - 1]

----------------------------------------------------------------------------
(* struct render_priv, struct pass *)

PASS_UNINIT == [state |-> "uninitialized", program |-> NULL,
                attributes |-> NULL_HMAP, instance_attributes |-> NULL_HMAP]

\* The private data of a node as the node system allocates it: the
\* parameters as set by the user, every other field zeroed.
render_priv(program, attributes, instance_attributes, nb_instances) ==
    [program |-> program,
     attributes |-> attributes,
     instance_attributes |-> instance_attributes,
     nb_instances |-> nb_instances,
     pass_attributes |-> NULL_HMAP,
     pass |-> PASS_UNINIT,
     has_indices_buffer_ref |-> 0,
     indices_type |-> "0",
     draw |-> NULL]

NO_REPORT == [msg |-> "", key |-> NULL, examined |-> 0]

\* What a call of render_init hands back: its return value, the private
\* data and the buffers as it leaves them, the error it logged, and the
\* collaborators it called, in order.
init_result(ret, s, bufs, report, calls) ==
    [ret |-> ret, s |-> s, bufs |-> bufs, report |-> report, calls |-> calls]

----------------------------------------------------------------------------
(* render_init, step by step *)

\* A variant of the instancing checks that tests nb_instances > 0, as the
\* selection of the draw procedure does
instancing_checks_positive(s, feat) ==
    IF s.nb_instances > 0 /\ NGLI_FEATURE_DRAW_INSTANCED \notin feat
    THEN "context does not support instanced draws"
    ELSE IF ~s.instance_attributes.null /\ NGLI_FEATURE_INSTANCED_ARRAY \notin feat
    THEN "context does not support instanced arrays"
    ELSE ""

\* Instancing checks: the message logged, "" when both checks pass
instancing_checks(s, feat) ==
    IF s.nb_instances # 0 /\ NGLI_FEATURE_DRAW_INSTANCED \notin feat
    THEN "context does not support instanced draws"
    ELSE IF ~s.instance_attributes.null /\ NGLI_FEATURE_INSTANCED_ARRAY \notin feat
    THEN "context does not support instanced arrays"
    ELSE ""

\* The loop of check_attributes from entry i on: the first entry whose
\* buffer count differs from expected ends it with -1 and is the one logged.
RECURSIVE check_entries(_, _, _, _)
check_entries(entries, i, expected, bufs) ==
    IF i > Len(entries)
    THEN [ret |-> 0, key |-> NULL, examined |-> Len(entries)]
    ELSE IF bufs[entries[i].data].count # expected
    THEN [ret |-> -1, key |-> entries[i].key, examined |-> i]
    ELSE check_entries(entries, i + 1, expected, bufs)

\* A variant of check_attributes whose loop goes on after a mismatch: the
\* entry logged last is the last one that mismatches
RECURSIVE check_entries_all(_, _, _, _, _)
check_entries_all(entries, i, expected, bufs, found) ==
    IF i > Len(entries)
    THEN found
    ELSE IF bufs[entries[i].data].count # expected
    THEN check_entries_all(entries, i + 1, expected, bufs,
                           [ret |-> -1, key |-> entries[i].key, examined |-> i])
    ELSE check_entries_all(entries, i + 1, expected, bufs,
                           [found EXCEPT !.examined = i])

check_attributes_all(s, attributes, per_instance, geom, bufs) ==
    IF attributes.null
    THEN [ret |-> 0, key |-> NULL, examined |-> 0]
    ELSE check_entries_all(attributes.entries, 1,
                           IF per_instance
                           THEN s.nb_instances
                           ELSE bufs[geom.vertices_buffer].count,
                           bufs, [ret |-> 0, key |-> NULL, examined |-> 0])

check_attributes(s, attributes, per_instance, geom, bufs) ==
    IF attributes.null
    THEN [ret |-> 0, key |-> NULL, examined |-> 0]
    ELSE check_entries(attributes.entries, 1,
                       IF per_instance
                       THEN s.nb_instances
                       ELSE bufs[geom.vertices_buffer].count,
                       bufs)

attrib_const_map ==
    << [const_name |-> "ngl_position", field |-> "vertices_buffer"],
       [const_name |-> "ngl_uvcoord",  field |-> "uvcoords_buffer"],
       [const_name |-> "ngl_normal",   field |-> "normals_buffer"] >>

\* The ngli_hmap_set calls of init_attributes, in order: every user
\* attribute, then every builtin slot of the geometry that is not NULL.
RECURSIVE builtin_sets(_, _)
builtin_sets(geom, i) ==
    IF i > Len(attrib_const_map)
    THEN <<>>
    ELSE LET anode == geom[attrib_const_map[i].field]
         IN (IF anode = NULL
             THEN <<>>
             ELSE << [key |-> attrib_const_map[i].const_name, data |-> anode] >>)
            \o builtin_sets(geom, i + 1)

RECURSIVE hmap_set_all(_, _, _)
hmap_set_all(m, sets, n) ==
    IF n = 0
    THEN m
    ELSE LET e == sets[n]
         IN hmap_set(hmap_set_all(m, sets, n - 1), e.key, e.data)

\* A variant of init_attributes that sets the builtin slots first and the
\* user attributes after them
init_attributes_user_last(s, geom, env) ==
    IF ~env.hmap_create
    THEN [ret |-> -1, pass_attributes |-> NULL_HMAP]
    ELSE LET sets == builtin_sets(geom, 1)
                     \o (IF s.attributes.null THEN <<>> ELSE s.attributes.entries)
             failing == env.hmap_set_fail \in 1..Len(sets)
             done == IF failing THEN env.hmap_set_fail - 1 ELSE Len(sets)
         IN [ret |-> IF failing THEN -1 ELSE 0,
             pass_attributes |-> hmap_set_all(hmap(<<>>), sets, done)]

\* env.hmap_create: whether ngli_hmap_create returns a map;
\* env.hmap_set_fail: the rank of the ngli_hmap_set call that fails (0: none)
init_attributes(s, geom, env) ==
    IF ~env.hmap_create
    THEN [ret |-> -1, pass_attributes |-> NULL_HMAP]
    ELSE LET sets == (IF s.attributes.null THEN <<>> ELSE s.attributes.entries)
                     \o builtin_sets(geom, 1)
             failing == env.hmap_set_fail \in 1..Len(sets)
             done == IF failing THEN env.hmap_set_fail - 1 ELSE Len(sets)
         IN [ret |-> IF failing THEN -1 ELSE 0,
             pass_attributes |-> hmap_set_all(hmap(<<>>), sets, done)]

\* A variant of the selection that takes nb_instances >= 0 for instanced
select_draw_nonneg(s, geom) ==
    IF geom.indices_buffer # NULL
    THEN IF s.nb_instances >= 0 THEN "draw_elements_instanced" ELSE "draw_elements"
    ELSE IF s.nb_instances >= 0 THEN "draw_arrays_instanced" ELSE "draw_arrays"

\* The draw procedure resolved at the end of render_init
select_draw(s, geom) ==
    IF geom.indices_buffer # NULL
    THEN IF s.nb_instances > 0 THEN "draw_elements_instanced" ELSE "draw_elements"
    ELSE IF s.nb_instances > 0 THEN "draw_arrays_instanced" ELSE "draw_arrays"

\* ngli_pass_init(&s->pass, ctx, &params)
pass_init(params, ret) ==
    [state |-> IF ret < 0 THEN "failed" ELSE "initialized",
     program |-> params.program,
     attributes |-> params.attributes,
     instance_attributes |-> params.instance_attributes]

\* A variant of the end of render_init that resolves the draw procedure
\* before it initializes the pass
init_pass_and_draw_early(s, geom, bufs, env, calls) ==
    LET params == [program |-> s.program,
                   attributes |-> s.pass_attributes,
                   instance_attributes |-> s.instance_attributes]
        s1 == [s EXCEPT !.draw = select_draw(s, geom),
                        !.pass = pass_init(params, env.pass_init)]
        calls1 == Append(calls, "ngli_pass_init")
    IN init_result(IF env.pass_init < 0 THEN env.pass_init ELSE 0,
                   s1, bufs, NO_REPORT, calls1)

\* render_init from the pass parameters on (the private data s already
\* holds the program, the index buffer reference and pass_attributes)
init_pass_and_draw(s, geom, bufs, env, calls) ==
    LET params == [program |-> s.program,
                   attributes |-> s.pass_attributes,
                   instance_attributes |-> s.instance_attributes]
        s1 == [s EXCEPT !.pass = pass_init(params, env.pass_init)]
        calls1 == Append(calls, "ngli_pass_init")
    IN IF env.pass_init < 0
       THEN init_result(env.pass_init, s1, bufs, NO_REPORT, calls1)
       ELSE init_result(0, [s1 EXCEPT !.draw = select_draw(s1, geom)],
                        bufs, NO_REPORT, calls1)

\* A variant of init_indices_and_after that records the reference in
\* has_indices_buffer_ref only once the index buffer was accepted
init_indices_and_after_flag_late(s, geom, bufs, env, calls) ==
    LET after(s1, bufs1, calls1) ==
            LET a == init_attributes(s1, geom, env)
                s2 == [s1 EXCEPT !.pass_attributes = a.pass_attributes]
                calls2 == Append(calls1, "init_attributes")
            IN IF a.ret < 0
               THEN init_result(a.ret, s2, bufs1, NO_REPORT, calls2)
               ELSE init_pass_and_draw(s2, geom, bufs1, env, calls2)
    IN IF geom.indices_buffer # NULL
       THEN LET calls1 == Append(calls, "ngli_node_buffer_ref")
            IN IF env.buffer_ref < 0
               THEN init_result(env.buffer_ref, s, bufs, NO_REPORT, calls1)
               ELSE LET bufs1 == buffer_ref(bufs, geom.indices_buffer)
                        s1 == [s EXCEPT !.has_indices_buffer_ref = 1]
                        indices == bufs1[geom.indices_buffer]
                    IN IF indices.block
                       THEN init_result(-1, s, bufs1,
                                [msg |-> "geometry indices buffers referencing a block are not supported",
                                 key |-> NULL, examined |-> 0],
                                calls1)
                       ELSE after([s1 EXCEPT !.indices_type =
                                       gl_texture_format_type(indices.data_format)],
                                  bufs1,
                                  Append(calls1, "ngli_format_get_gl_texture_format"))
       ELSE after(s, bufs, calls)

\* render_init from the index buffer reference on
init_indices_and_after(s, geom, bufs, env, calls) ==
    LET after(s1, bufs1, calls1) ==
            LET a == init_attributes(s1, geom, env)
                s2 == [s1 EXCEPT !.pass_attributes = a.pass_attributes]
                calls2 == Append(calls1, "init_attributes")
            IN IF a.ret < 0
               THEN init_result(a.ret, s2, bufs1, NO_REPORT, calls2)
               ELSE init_pass_and_draw(s2, geom, bufs1, env, calls2)
    IN IF geom.indices_buffer # NULL
       THEN LET calls1 == Append(calls, "ngli_node_buffer_ref")
            IN IF env.buffer_ref < 0
               THEN init_result(env.buffer_ref, s, bufs, NO_REPORT, calls1)
               ELSE LET bufs1 == buffer_ref(bufs, geom.indices_buffer)
                        s1 == [s EXCEPT !.has_indices_buffer_ref = 1]
                        indices == bufs1[geom.indices_buffer]
                    IN IF indices.block
                       THEN init_result(-1, s1, bufs1,
                                [msg |-> "geometry indices buffers referencing a block are not supported",
                                 key |-> NULL, examined |-> 0],
                                calls1)
                       ELSE after([s1 EXCEPT !.indices_type =
                                       gl_texture_format_type(indices.data_format)],
                                  bufs1,
                                  Append(calls1, "ngli_format_get_gl_texture_format"))
       ELSE after(s, bufs, calls)

\* render_init from the default program on
init_program_and_after(s, geom, bufs, env, calls) ==
    IF s.program = NULL
    THEN LET calls1 == Append(calls, "ngl_node_create")
         IN IF ~env.node_create
            THEN init_result(-1, s, bufs, NO_REPORT, calls1)
            ELSE LET s1 == [s EXCEPT !.program = "default_program"]
                     calls2 == Append(calls1, "ngli_node_attach_ctx")
                 IN IF env.attach_ctx < 0
                    THEN init_result(env.attach_ctx, s1, bufs, NO_REPORT, calls2)
                    ELSE init_indices_and_after(s1, geom, bufs, env, calls2)
    ELSE init_indices_and_after(s, geom, bufs, env, calls)

\* A variant of render_init that creates the default program before the
\* capability checks and the validation of the attributes
render_init_program_first(s, feat, geom, bufs, env) ==
    LET s0 == IF s.program = NULL /\ env.node_create
              THEN [s EXCEPT !.program = "default_program"] ELSE s
        caps == instancing_checks(s0, feat)
        c0 == check_attributes(s0, s0.attributes, FALSE, geom, bufs)
        c1 == check_attributes(s0, s0.instance_attributes, TRUE, geom, bufs)
    IN IF caps # ""
       THEN init_result(-1, s0, bufs, [msg |-> caps, key |-> NULL, examined |-> 0], <<>>)
       ELSE IF c0.ret < 0
       THEN init_result(c0.ret, s0, bufs,
                [msg |-> "attribute buffer count does not match vertices count",
                 key |-> c0.key, examined |-> c0.examined],
                <<"check_attributes">>)
       ELSE IF c1.ret < 0
       THEN init_result(c1.ret, s0, bufs,
                [msg |-> "attribute buffer count does not match instance count",
                 key |-> c1.key, examined |-> c1.examined],
                <<"check_attributes", "check_attributes">>)
       ELSE init_program_and_after(s, geom, bufs, env,
                <<"check_attributes", "check_attributes">>)

render_init(s, feat, geom, bufs, env) ==
    LET caps == instancing_checks(s, feat)
        c0 == check_attributes(s, s.attributes, FALSE, geom, bufs)
        c1 == check_attributes(s, s.instance_attributes, TRUE, geom, bufs)
    IN IF caps # ""
       THEN init_result(-1, s, bufs, [msg |-> caps, key |-> NULL, examined |-> 0], <<>>)
       ELSE IF c0.ret < 0
       THEN init_result(c0.ret, s, bufs,
                [msg |-> "attribute buffer count does not match vertices count",
                 key |-> c0.key, examined |-> c0.examined],
                <<"check_attributes">>)
       ELSE IF c1.ret < 0
       THEN init_result(c1.ret, s, bufs,
                [msg |-> "attribute buffer count does not match instance count",
                 key |-> c1.key, examined |-> c1.examined],
                <<"check_attributes", "check_attributes">>)
       ELSE init_program_and_after(s, geom, bufs, env,
                <<"check_attributes", "check_attributes">>)

----------------------------------------------------------------------------
(* render_uninit *)

\* ngli_pass_uninit
pass_uninit(pass) == PASS_UNINIT

\* A variant of render_uninit that keeps the index buffer reference
render_uninit_keep_ref(s, geom, bufs) ==
    [s |-> [s EXCEPT !.pass_attributes = NULL_HMAP,
                     !.pass = pass_uninit(s.pass)],
     bufs |-> bufs,
     released |-> 0]

render_uninit(s, geom, bufs) ==
    [s |-> [s EXCEPT !.pass_attributes = NULL_HMAP,
                     !.pass = pass_uninit(s.pass)],
     bufs |-> IF s.has_indices_buffer_ref # 0
              THEN buffer_unref(bufs, geom.indices_buffer)
              ELSE bufs,
     released |-> IF s.has_indices_buffer_ref # 0 THEN 1 ELSE 0]

----------------------------------------------------------------------------
(* render_update *)

\* A variant of render_update that updates the pass whatever the update of
\* the geometry returned, and returns the first failure
render_update_both(s, t, env) ==
    [ret |-> IF env.node_update < 0 THEN env.node_update ELSE env.pass_update,
     calls |-> << [fn |-> "ngli_node_update", t |-> t],
                  [fn |-> "ngli_pass_update", t |-> t] >>]

\* env.node_update, env.pass_update: what ngli_node_update(s->geometry, t)
\* and ngli_pass_update(&s->pass, t) return
render_update(s, t, env) ==
    LET c0 == << [fn |-> "ngli_node_update", t |-> t] >>
    IN IF env.node_update < 0
       THEN [ret |-> env.node_update, calls |-> c0]
       ELSE [ret |-> env.pass_update,
             calls |-> Append(c0, [fn |-> "ngli_pass_update", t |-> t])]

----------------------------------------------------------------------------
(* render_draw and the four draw procedures *)

gl_event(call, node, mode, count, type, primcount) ==
    [call |-> call, node |-> node, mode |-> mode, count |-> count,
     type |-> type, primcount |-> primcount]

pass_event(call, node) == gl_event(call, node, "", 0, "", 0)

\* A variant of draw_elements that passes the vertex count
draw_elements_vertices(n, s, geom, bufs) ==
    LET vertices == bufs[geom.vertices_buffer]
        gl_topology == gl_topology_of(geom.topology)
    IN << gl_event("glBindBuffer", n, "", 0, "", 0),
          gl_event("glDrawElements", n, gl_topology, vertices.count,
                   s.indices_type, 0) >>

draw_elements(n, s, geom, bufs) ==
    LET indices == bufs[geom.indices_buffer]
        gl_topology == gl_topology_of(geom.topology)
    IN << gl_event("glBindBuffer", n, "", 0, "", 0),
          gl_event("glDrawElements", n, gl_topology, indices.count,
                   s.indices_type, 0) >>

draw_elements_instanced(n, s, geom, bufs) ==
    LET indices == bufs[geom.indices_buffer]
        gl_topology == gl_topology_of(geom.topology)
    IN << gl_event("glBindBuffer", n, "", 0, "", 0),
          gl_event("glDrawElementsInstanced", n, gl_topology, indices.count,
                   s.indices_type, s.nb_instances) >>

draw_arrays(n, s, geom, bufs) ==
    LET vertices == bufs[geom.vertices_buffer]
        gl_topology == gl_topology_of(geom.topology)
    IN << gl_event("glDrawArrays", n, gl_topology, vertices.count, "", 0) >>

draw_arrays_instanced(n, s, geom, bufs) ==
    LET vertices == bufs[geom.vertices_buffer]
        gl_topology == gl_topology_of(geom.topology)
    IN << gl_event("glDrawArraysInstanced", n, gl_topology, vertices.count,
                   "", s.nb_instances) >>

\* s->draw(gl, s)
call_draw(n, s, geom, bufs) ==
    CASE s.draw = "draw_elements" -> draw_elements(n, s, geom, bufs)
      [] s.draw = "draw_elements_instanced" -> draw_elements_instanced(n, s, geom, bufs)
      [] s.draw = "draw_arrays" -> draw_arrays(n, s, geom, bufs)
      [] s.draw = "draw_arrays_instanced" -> draw_arrays_instanced(n, s, geom, bufs)

\* A variant of render_draw that gives up when the pass does not bind
render_draw_bound_only(n, s, geom, bufs, env) ==
    IF env.pass_bind < 0
    THEN [events |-> << pass_event("ngli_pass_bind", n) >>,
          errors |-> << "pass upload data error" >>]
    ELSE [events |-> << pass_event("ngli_pass_bind", n) >>
                     \o call_draw(n, s, geom, bufs)
                     \o << pass_event("ngli_pass_unbind", n) >>,
          errors |-> IF env.pass_unbind < 0
                     THEN << "could not unbind pass" >> ELSE <<>>]

\* A variant of render_draw that unbinds the pass only when it did bind
render_draw_unbind_if_bound(n, s, geom, bufs, env) ==
    [events |-> << pass_event("ngli_pass_bind", n) >>
                \o call_draw(n, s, geom, bufs)
                \o (IF env.pass_bind < 0 THEN <<>>
                    ELSE << pass_event("ngli_pass_unbind", n) >>),
     errors |-> (IF env.pass_bind < 0 THEN << "pass upload data error" >> ELSE <<>>)
                \o (IF env.pass_bind >= 0 /\ env.pass_unbind < 0
                    THEN << "could not unbind pass" >> ELSE <<>>)]

\* env.pass_bind, env.pass_unbind: what ngli_pass_bind and ngli_pass_unbind
\* return.  render_draw returns nothing; errors are the messages it logs.
render_draw(n, s, geom, bufs, env) ==
    [events |-> << pass_event("ngli_pass_bind", n) >>
                \o call_draw(n, s, geom, bufs)
                \o << pass_event("ngli_pass_unbind", n) >>,
     errors |-> (IF env.pass_bind < 0 THEN << "pass upload data error" >> ELSE <<>>)
                \o (IF env.pass_unbind < 0 THEN << "could not unbind pass" >> ELSE <<>>)]

----------------------------------------------------------------------------
(* Inputs *)

Features == SUBSET {NGLI_FEATURE_DRAW_INSTANCED, NGLI_FEATURE_INSTANCED_ARRAY}

Topologies == {"NGLI_PRIMITIVE_TOPOLOGY_TRIANGLE_LIST",
               "NGLI_PRIMITIVE_TOPOLOGY_LINE_LIST"}

\* struct geometry_priv: the vertices buffer is a constructor parameter of
\* the geometry and always there, the three other buffers are optional
Geometries ==
    [vertices_buffer : {"vertices"},
     uvcoords_buffer : {NULL, "uvcoords"},
     normals_buffer  : {NULL, "normals"},
     indices_buffer  : {NULL, "indices"},
     topology        : {"NGLI_PRIMITIVE_TOPOLOGY_TRIANGLE_LIST"}]

buffer_priv(count, block, data_format, buffer_refcount) ==
    [count |-> count, block |-> block, data_format |-> data_format,
     buffer_refcount |-> buffer_refcount]

\* The buffer nodes of the scene: the geometry's, and three user buffers
\* of 1, 2 and 3 elements.  idx is the geometry's index buffer.
Buffers(idx) ==
    [id \in {"vertices", "uvcoords", "normals", "indices", "b1", "b2", "b3"} |->
        CASE id = "indices" -> idx
          [] id = "b1" -> buffer_priv(1, FALSE, "NGLI_FORMAT_R32_SFLOAT", 0)
          [] id = "b3" -> buffer_priv(3, FALSE, "NGLI_FORMAT_R32_SFLOAT", 0)
          [] OTHER -> buffer_priv(2, FALSE, "NGLI_FORMAT_R32_SFLOAT", 0)]

IndexFormats == {"NGLI_FORMAT_R16_UNORM", "NGLI_FORMAT_R32_UINT"}

\* The index buffers: 3 indices, block-backed or not, with or without a
\* reference held by somebody else
IndexBuffers ==
    {buffer_priv(3, block, f, rc) :
        block \in BOOLEAN, f \in IndexFormats, rc \in {0, 1}}

ALL_FEATURES == {NGLI_FEATURE_DRAW_INSTANCED, NGLI_FEATURE_INSTANCED_ARRAY}

entry(key, data) == [key |-> key, data |-> data]

\* attributes maps (the geometry has 2 vertices: b2 matches, b1 and b3 do not)
AttributeMaps ==
    {NULL_HMAP,
     hmap(<<>>),
     hmap(<< entry("a", "b2") >>),
     hmap(<< entry("a", "b2"), entry("b", "b3") >>),
     hmap(<< entry("b", "b3"), entry("a", "b2") >>),
     hmap(<< entry("a", "b1"), entry("b", "b3") >>),
     hmap(<< entry("ngl_position", "b2"), entry("ngl_uvcoord", "b2") >>)}

\* instance_attributes maps
InstanceAttributeMaps ==
    {NULL_HMAP,
     hmap(<<>>),
     hmap(<< entry("i", "b1") >>),
     hmap(<< entry("i", "b1"), entry("j", "b2") >>)}

NbInstances == {-1, 0, 1}

Programs == {NULL, "user_program"}

\* What the collaborators called by render_init return: all succeed, or
\* exactly one of them fails (render_init stops at the first failure).
ENV_OK == [node_create |-> TRUE, attach_ctx |-> 0, buffer_ref |-> 0,
           hmap_create |-> TRUE, hmap_set_fail |-> 0, pass_init |-> 0]

InitEnvs ==
    {ENV_OK,
     [ENV_OK EXCEPT !.node_create = FALSE],
     [ENV_OK EXCEPT !.attach_ctx = -2],
     [ENV_OK EXCEPT !.buffer_ref = -3],
     [ENV_OK EXCEPT !.hmap_create = FALSE],
     [ENV_OK EXCEPT !.pass_init = -5]}
    \cup {[ENV_OK EXCEPT !.hmap_set_fail = k] : k \in 1..MaxSets}

UpdateEnvs == [node_update : {0, -1}, pass_update : {0, -2}]

DrawEnvs == [pass_bind : {0, -1}, pass_unbind : {0, -1}]

Times == {0, 1}

----------------------------------------------------------------------------
(* State *)

\* What the last render_init of a node saw of the geometry
seen(geom, bufs) ==
    [topology |-> geom.topology,
     vertices_count |-> bufs[geom.vertices_buffer].count,
     indices_count |-> bufs["indices"].count,
     data_format |-> bufs["indices"].data_format]

\* Per node: the calls of render_init (all, and those that returned 0) and
\* of render_uninit, the index buffer references taken and released, the
\* default programs created and those attached to the context, the geometry
\* as the last render_init saw it
HIST0 == [inits |-> 0, ok_inits |-> 0, uninits |-> 0, refs |-> 0,
          unrefs |-> 0, created |-> 0, attached |-> 0, at_init |-> <<>>]

\* A call: the entry point, the node, the results of the collaborators it
\* was run with, what it returned, the error it reported, the collaborators
\* it called, the messages it logged
call(op, n, env, ret, report, calls, errors) ==
    [op |-> op, node |-> n, env |-> env, ret |-> ret, report |-> report,
     calls |-> calls, errors |-> errors]

NO_CALL == call("none", 0, <<>>, 0, NO_REPORT, <<>>, <<>>)

refcount(bufs) == bufs["indices"].buffer_refcount

\* The scene before any call: ns render nodes on one geometry, each with
\* parameters of the given sets, on a context with some of the features.
Scene(ns, feats, geoms, idxs, progs, attrs, iattrs, nbs) ==
    /\ nodes = ns
    /\ features \in feats
    /\ geometry \in geoms
    /\ buffers \in {Buffers(idx) :
                      idx \in IF geometry.indices_buffer = NULL
                              THEN {buffer_priv(3, FALSE, "NGLI_FORMAT_R16_UNORM", 0)}
                              ELSE idxs}
    /\ buffers0 = buffers
    /\ render \in [ns -> {render_priv(p, a, ia, nb) :
                             p \in progs, a \in attrs, ia \in iattrs, nb \in nbs}]
    /\ state = [n \in ns |-> "uninitialized"]
    /\ hist = [n \in ns |-> HIST0]
    /\ gl_log = <<>>
    /\ last = NO_CALL
    /\ nb_calls = 0

\* One render node, its parameters, its geometry and the context drawn
\* from all the inputs above (one index format, one initial reference)
InitAll ==
    Scene({1}, Features, Geometries,
          {b \in IndexBuffers : b.data_format = "NGLI_FORMAT_R16_UNORM"
                                /\ b.buffer_refcount = 1},
          Programs, AttributeMaps, InstanceAttributeMaps, NbInstances)

\* One render node initialized and uninitialized in any order
Init ==
    Scene({1}, {{}, ALL_FEATURES},
          {g \in Geometries : g.uvcoords_buffer = NULL /\ g.normals_buffer # NULL},
          {b \in IndexBuffers : b.data_format = "NGLI_FORMAT_R16_UNORM"
                                /\ b.buffer_refcount = 1},
          Programs,
          {NULL_HMAP, hmap(<< entry("a", "b2"), entry("b", "b3") >>)},
          {NULL_HMAP},
          {0, 1})

\* One render node initialized, then updated and drawn while the geometry
\* changes
InitFrame ==
    Scene({1}, {ALL_FEATURES},
          {g \in Geometries : g.uvcoords_buffer = NULL /\ g.normals_buffer = NULL},
          {b \in IndexBuffers : ~b.block /\ b.buffer_refcount = 0},
          {"user_program"}, {NULL_HMAP}, {NULL_HMAP}, {0, 1})

\* NbNodes render nodes sharing the geometry and its index buffer
InitShared ==
    Scene(Nodes, {ALL_FEATURES},
          {g \in Geometries : /\ g.uvcoords_buffer = NULL
                              /\ g.normals_buffer = NULL
                              /\ g.indices_buffer # NULL},
          {b \in IndexBuffers : ~b.block /\ b.data_format = "NGLI_FORMAT_R32_UINT"},
          {"user_program"}, {NULL_HMAP}, {NULL_HMAP}, {0, 1})


\* NbNodes render nodes drawn on one context, instanced or not
InitDraw ==
    Scene(Nodes, {ALL_FEATURES},
          {g \in Geometries : g.uvcoords_buffer = NULL /\ g.normals_buffer = NULL},
          {b \in IndexBuffers : /\ ~b.block /\ b.buffer_refcount = 0
                                /\ b.data_format = "NGLI_FORMAT_R32_UINT"},
          {"user_program"}, {NULL_HMAP}, {NULL_HMAP}, {0, 1})

----------------------------------------------------------------------------
(* Actions: one per entry point of ngli_render_class *)

RenderInit(n, envs) ==
    /\ \E env \in envs :
          LET r == render_init(render[n], features, geometry, buffers, env)
          IN /\ render' = [render EXCEPT ![n] = r.s]
             /\ buffers' = r.bufs
             /\ state' = [state EXCEPT ![n] = IF r.ret < 0 THEN "init_failed"
                                                            ELSE "initialized"]
             /\ hist' = [hist EXCEPT
                    ![n].inits = @ + 1,
                    ![n].ok_inits = @ + (IF r.ret < 0 THEN 0 ELSE 1),
                    ![n].refs = @ + refcount(r.bufs) - refcount(buffers),
                    ![n].created = @ + (IF r.s.program # render[n].program
                                        THEN 1 ELSE 0),
                    ![n].attached = @ + (IF /\ \E i \in DOMAIN r.calls :
                                                  r.calls[i] = "ngli_node_attach_ctx"
                                            /\ env.attach_ctx >= 0
                                         THEN 1 ELSE 0),
                    ![n].at_init = seen(geometry, buffers)]
             /\ last' = call("init", n, env, r.ret, r.report, r.calls, <<>>)
    /\ nb_calls' = nb_calls + 1
    /\ UNCHANGED <<nodes, features, geometry, gl_log, buffers0>>

RenderUninit(n) ==
    /\ LET r == render_uninit(render[n], geometry, buffers)
       IN /\ render' = [render EXCEPT ![n] = r.s]
          /\ buffers' = r.bufs
          /\ hist' = [hist EXCEPT
                 ![n].uninits = @ + 1,
                 ![n].unrefs = @ + refcount(buffers) - refcount(r.bufs)]
    /\ state' = [state EXCEPT ![n] = "uninitialized"]
    /\ last' = call("uninit", n, <<>>, 0, NO_REPORT, <<>>, <<>>)
    /\ nb_calls' = nb_calls + 1
    /\ UNCHANGED <<nodes, features, geometry, gl_log, buffers0>>

\* A variant of RenderUpdate that resolves the index type again from the
\* format the index buffer has at the time of the update
RenderUpdate_indices_type(n) ==
    /\ state[n] = "initialized"
    /\ \E t \in Times, env \in UpdateEnvs :
          LET r == render_update(render[n], t, env)
          IN last' = call("update", n, [t |-> t, ret |-> env], r.ret,
                          NO_REPORT, r.calls, <<>>)
    /\ render' = [render EXCEPT ![n].indices_type =
                      IF geometry.indices_buffer = NULL THEN @
                      ELSE gl_texture_format_type(buffers["indices"].data_format)]
    /\ nb_calls' = nb_calls + 1
    /\ UNCHANGED <<nodes, features, geometry, buffers, state, hist,
                   gl_log, buffers0>>

\* The node system updates and draws initialized nodes only
RenderUpdate(n) ==
    /\ state[n] = "initialized"
    /\ \E t \in Times, env \in UpdateEnvs :
          LET r == render_update(render[n], t, env)
          IN last' = call("update", n, [t |-> t, ret |-> env], r.ret,
                          NO_REPORT, r.calls, <<>>)
    /\ nb_calls' = nb_calls + 1
    /\ UNCHANGED <<nodes, features, geometry, buffers, render, state, hist,
                   gl_log, buffers0>>

RenderDraw(n) ==
    /\ state[n] = "initialized"
    /\ \E env \in DrawEnvs :
          LET r == render_draw(n, render[n], geometry, buffers, env)
          IN /\ gl_log' = gl_log \o r.events
             /\ last' = call("draw", n, env, 0, NO_REPORT, <<>>, r.errors)
    /\ nb_calls' = nb_calls + 1
    /\ UNCHANGED <<nodes, features, geometry, buffers, render, state, hist,
                   buffers0>>

\* The geometry changes under the render nodes: another topology, one more
\* vertex or index, another index format
other(x, a, b) == IF x = a THEN b ELSE a

GeometryMutate ==
    /\ \/ /\ geometry' = [geometry EXCEPT !.topology =
                              other(@, "NGLI_PRIMITIVE_TOPOLOGY_TRIANGLE_LIST",
                                       "NGLI_PRIMITIVE_TOPOLOGY_LINE_LIST")]
          /\ UNCHANGED buffers
       \/ /\ buffers' = [buffers EXCEPT !["vertices"].count = other(@, 2, 3)]
          /\ UNCHANGED geometry
       \/ /\ geometry.indices_buffer # NULL
          /\ buffers' = [buffers EXCEPT !["indices"].count = other(@, 3, 4)]
          /\ UNCHANGED geometry
       \/ /\ geometry.indices_buffer # NULL
          /\ buffers' = [buffers EXCEPT !["indices"].data_format =
                             other(@, "NGLI_FORMAT_R16_UNORM", "NGLI_FORMAT_R32_UINT")]
          /\ UNCHANGED geometry
    /\ last' = call("mutate", 0, <<>>, 0, NO_REPORT, <<>>, <<>>)
    /\ nb_calls' = nb_calls + 1
    /\ UNCHANGED <<nodes, features, render, state, hist, gl_log, buffers0>>

Budget == nb_calls < MaxCalls

Fresh(n) == hist[n].inits = 0 /\ hist[n].uninits = 0

\* The failures of collaborators followed up where nodes share a buffer
SharedEnvs ==
    {ENV_OK, [ENV_OK EXCEPT !.buffer_ref = -3], [ENV_OK EXCEPT !.pass_init = -5]}

\* any sequence of init and uninit calls on the node
Next ==
    \/ \E n \in nodes : Budget /\ RenderInit(n, InitEnvs)
    \/ \E n \in nodes : Budget /\ RenderUninit(n)

\* one render_init on a node that was never initialized
NextInit == \E n \in nodes : Fresh(n) /\ RenderInit(n, InitEnvs)

\* one render_init, then frames
NextFrame ==
    \/ \E n \in nodes : Fresh(n) /\ RenderInit(n, InitEnvs)
    \/ \E n \in nodes : Budget /\ RenderUpdate(n)
    \/ \E n \in nodes : Budget /\ RenderDraw(n)
    \/ Budget /\ state # [n \in nodes |-> "uninitialized"] /\ GeometryMutate

\* every node initialized at most once and uninitialized at most once
NextShared ==
    \/ \E n \in nodes : hist[n].inits = 0 /\ RenderInit(n, SharedEnvs)
    \/ \E n \in nodes : hist[n].uninits = 0 /\ RenderUninit(n)

\* The render_draw calls made so far: each one binds its pass once
nb_draws ==
    Cardinality({i \in DOMAIN gl_log : gl_log[i].call = "ngli_pass_bind"})

\* every node initialized once, then any sequence of render_draw calls on
\* the initialized nodes, all on the one thread of the context
NextDraw ==
    \/ \E n \in nodes : Fresh(n) /\ RenderInit(n, {ENV_OK, [ENV_OK EXCEPT !.pass_init = -5]})
    \/ \E n \in nodes : nb_draws < MaxCalls /\ RenderDraw(n)

Spec == Init /\ [][Next]_vars

SpecInit == InitAll /\ [][NextInit]_vars

SpecFrame == InitFrame /\ [][NextFrame]_vars

SpecShared == InitShared /\ [][NextShared]_vars

SpecDraw == InitDraw /\ [][NextDraw]_vars

----------------------------------------------------------------------------
(* Claims *)

has_feature(f) == f \in features

indexed == geometry.indices_buffer # NULL

\* the last call was render_init on node n
inited(n) == last.op = "init" /\ last.node = n

\* C1: whenever render_init has succeeded on a node, the draw procedure it
\* resolved is the one of the decision table: index buffer and
\* nb_instances = 0: draw_elements; index buffer and nb_instances > 0:
\* draw_elements_instanced; no index buffer and nb_instances = 0:
\* draw_arrays; no index buffer and nb_instances > 0: draw_arrays_instanced.
C1_DrawTable ==
    \A n \in nodes :
        (inited(n) /\ last.ret = 0) =>
            LET s == render[n]
            IN /\ (indexed /\ s.nb_instances = 0) => s.draw = "draw_elements"
               /\ (indexed /\ s.nb_instances > 0) => s.draw = "draw_elements_instanced"
               /\ (~indexed /\ s.nb_instances = 0) => s.draw = "draw_arrays"
               /\ (~indexed /\ s.nb_instances > 0) => s.draw = "draw_arrays_instanced"

C1_Witness ==
    /\ inited(1) /\ last.ret = 0
    /\ indexed /\ render[1].nb_instances > 0
    /\ render[1].draw = "draw_elements_instanced"

\* the entries of map m whose buffer has not the expected count
mismatches(m, expected) ==
    {i \in 1..Len(m.entries) : buffers[m.entries[i].data].count # expected}

vertices_count == buffers[geometry.vertices_buffer].count

\* (c) of C2: a buffer of attributes differs from the vertex count, or a
\* buffer of instance_attributes differs from nb_instances
count_mismatch(s) ==
    \/ mismatches(s.attributes, vertices_count) # {}
    \/ mismatches(s.instance_attributes, s.nb_instances) # {}

\* (d) of C2: the index buffer references a block
indices_in_block == indexed /\ buffers[geometry.indices_buffer].block

\* the number of ngli_hmap_set calls init_attributes makes for s
nb_sets(s) ==
    Len(s.attributes.entries)
    + Cardinality({f \in {"vertices_buffer", "uvcoords_buffer", "normals_buffer"} :
                      geometry[f] # NULL})

\* a collaborator called by render_init on s fails under env (the user
\* gave no program when the node has none or has the default one)
collaborator_fails(s, env) ==
    \/ s.program # "user_program" /\ (~env.node_create \/ env.attach_ctx < 0)
    \/ indexed /\ env.buffer_ref < 0
    \/ ~env.hmap_create
    \/ env.hmap_set_fail \in 1..nb_sets(s)
    \/ env.pass_init < 0

\* C2 as stated: render_init fails if and only if (a) nb_instances > 0
\* without the instanced-draw capability, (b) instance_attributes non-empty
\* without the instanced-array capability, (c) a count mismatch, or (d) an
\* index buffer referencing a block.
C2_FailsIff ==
    \A n \in nodes :
        inited(n) =>
            LET s == render[n]
            IN (last.ret < 0) <=>
                  \/ s.nb_instances > 0 /\ ~has_feature(NGLI_FEATURE_DRAW_INSTANCED)
                  \/ /\ Len(s.instance_attributes.entries) > 0
                     /\ ~has_feature(NGLI_FEATURE_INSTANCED_ARRAY)
                  \/ count_mismatch(s)
                  \/ indices_in_block

\* C2, amended: render_init fails if and only if (a) nb_instances is not 0
\* without the instanced-draw capability, (b) instance_attributes is set
\* (even to an empty map) without the instanced-array capability, (c) a
\* count mismatch, (d) an index buffer referencing a block, or (e) one of
\* the collaborators it calls fails.
C2_FailsIffAmended ==
    \A n \in nodes :
        inited(n) =>
            LET s == render[n]
            IN (last.ret < 0) <=>
                  \/ s.nb_instances # 0 /\ ~has_feature(NGLI_FEATURE_DRAW_INSTANCED)
                  \/ /\ ~s.instance_attributes.null
                     /\ ~has_feature(NGLI_FEATURE_INSTANCED_ARRAY)
                  \/ count_mismatch(s)
                  \/ indices_in_block
                  \/ collaborator_fails(s, last.env)

\* init fails on a negative nb_instances for want of the capability alone
C2_Witness ==
    /\ inited(1) /\ last.ret < 0
    /\ render[1].nb_instances < 0
    /\ ~has_feature(NGLI_FEATURE_DRAW_INSTANCED)
    /\ render[1].instance_attributes.null
    /\ ~count_mismatch(render[1])
    /\ ~indices_in_block
    /\ ~collaborator_fails(render[1], last.env)

\* the step is a call of render_init / render_uninit on node n
init_step(n) == last'.op = "init" /\ last'.node = n /\ nb_calls' = nb_calls + 1

uninit_step(n) == last'.op = "uninit" /\ last'.node = n /\ nb_calls' = nb_calls + 1

\* the one render_init of n that succeeds takes one reference on the shared
\* index buffer; the render_uninit that follows it releases one
C3_Step ==
    \A n \in nodes :
        /\ (init_step(n) /\ hist[n].inits = 0 /\ last'.ret = 0)
              => refcount(buffers') = refcount(buffers) + 1
        /\ (uninit_step(n) /\ hist[n].uninits = 0 /\ hist[n].inits = 1
                           /\ state[n] = "initialized")
              => refcount(buffers') = refcount(buffers) - 1

\* every node was initialized successfully once and then uninitialized once
all_done ==
    \A n \in nodes : /\ hist[n].inits = 1 /\ hist[n].ok_inits = 1
                     /\ hist[n].uninits = 1 /\ state[n] = "uninitialized"

\* C3: for render nodes sharing one index buffer, each initialized
\* successfully once and uninitialized once, in any interleaving: the
\* reference count of the buffer rises by exactly one at each init, falls by
\* exactly one at each uninit, and is back at its initial value once every
\* node is uninitialized.
C3_SharedRefcount ==
    /\ [][C3_Step]_vars
    /\ [](all_done => refcount(buffers) = refcount(buffers0))

C3_Witness ==
    /\ all_done
    /\ Cardinality(nodes) > 1
    /\ \A n \in nodes : hist[n].refs = 1 /\ hist[n].unrefs = 1
    /\ refcount(buffers) = refcount(buffers0)

\* C4: over any sequence of render_init and render_uninit calls on a node,
\* the index buffer references the node has released never exceed those it
\* has taken (a second render_uninit in a row releases nothing).
C4_ReleasedAtMostOnce ==
    \A n \in nodes : hist[n].unrefs <= hist[n].refs

\* the builtin buffer of the geometry that goes under a reserved name
builtin_of(key) ==
    CASE key = "ngl_position" -> geometry.vertices_buffer
      [] key = "ngl_uvcoord" -> geometry.uvcoords_buffer
      [] key = "ngl_normal" -> geometry.normals_buffer
      [] OTHER -> NULL

\* The map C5 describes: the user entries in their order, the data of an
\* entry under a reserved name replaced by the builtin buffer when there is
\* one, followed by the builtin buffers whose name no user entry has, in the
\* order ngl_position, ngl_uvcoord, ngl_normal.
overridden(attributes) ==
    LET user == attributes.entries
        new == SelectSeq(<<"ngl_position", "ngl_uvcoord", "ngl_normal">>,
                         LAMBDA k : builtin_of(k) # NULL
                                    /\ k \notin hmap_keys(attributes))
    IN [i \in 1..Len(user) |->
            IF builtin_of(user[i].key) # NULL
            THEN entry(user[i].key, builtin_of(user[i].key))
            ELSE user[i]]
       \o [i \in 1..Len(new) |-> entry(new[i], builtin_of(new[i]))]

\* C5: after a successful init, pass_attributes is the user attributes map
\* with every non-null builtin buffer of the geometry set under its reserved
\* name: a user attribute under such a name is replaced, a null builtin slot
\* adds nothing, every other user entry is kept.
C5_PassAttributes ==
    \A n \in nodes :
        (inited(n) /\ last.ret = 0) =>
            /\ ~render[n].pass_attributes.null
            /\ render[n].pass_attributes.entries = overridden(render[n].attributes)
            /\ \A k \in hmap_keys(render[n].attributes) :
                  builtin_of(k) = NULL =>
                     hmap_get(render[n].pass_attributes, k)
                        = hmap_get(render[n].attributes, k)

\* a user attribute under ngl_uvcoord gave way to the geometry's buffer,
\* and no entry was made for the normals the geometry has not
C5_Witness ==
    /\ inited(1) /\ last.ret = 0
    /\ hmap_get(render[1].attributes, "ngl_uvcoord") = "b2"
    /\ hmap_get(render[1].pass_attributes, "ngl_uvcoord") = "uvcoords"
    /\ geometry.normals_buffer = NULL
    /\ "ngl_normal" \notin hmap_keys(render[1].pass_attributes)

\* the capability checks of render_init pass for s
capable(s) ==
    /\ s.nb_instances = 0 \/ has_feature(NGLI_FEATURE_DRAW_INSTANCED)
    /\ s.instance_attributes.null \/ has_feature(NGLI_FEATURE_INSTANCED_ARRAY)

\* init failed on the first mismatching entry of map m, and looked at no
\* entry after it
reports_first(m, expected) ==
    LET bad == mismatches(m, expected)
        first == CHOOSE i \in bad : \A j \in bad : i <= j
    IN /\ last.ret < 0
       /\ last.report.key = m.entries[first].key
       /\ last.report.examined = first

\* C9: when the validation of attributes, or of instance_attributes after
\* attributes passed, meets entries whose count mismatches, init fails and
\* the attribute it reports is the first mismatching entry in the order of
\* the map; no later entry is examined, no matching entry is reported.
C9_FirstMismatch ==
    \A n \in nodes :
        (inited(n) /\ capable(render[n])) =>
            LET s == render[n]
            IN /\ mismatches(s.attributes, vertices_count) # {}
                    => reports_first(s.attributes, vertices_count)
               /\ (/\ mismatches(s.attributes, vertices_count) = {}
                   /\ mismatches(s.instance_attributes, s.nb_instances) # {})
                    => reports_first(s.instance_attributes, s.nb_instances)

\* attributes {a: V, b: V + 1}: b is reported, after a was examined
C9_Witness ==
    /\ inited(1) /\ last.ret < 0
    /\ render[1].attributes = hmap(<< entry("a", "b2"), entry("b", "b3") >>)
    /\ vertices_count = 2
    /\ last.report.key = "b"
    /\ last.report.examined = 2

\* C8: a render_init that fails resolves no draw procedure and issues no
\* graphics-API call; a node on which no render_init has succeeded has no
\* draw procedure.
C8_Step ==
    \A n \in nodes :
        (init_step(n) /\ last'.ret < 0) =>
            /\ render'[n].draw = render[n].draw
            /\ gl_log' = gl_log

C8_NoDrawAfterFailure ==
    /\ [][C8_Step]_vars
    /\ [](\A n \in nodes : hist[n].ok_inits = 0 => render[n].draw = NULL)

\* the pass failed to initialize on a node never initialized before
C8_Witness ==
    /\ inited(1) /\ last.ret < 0
    /\ hist[1].inits = 1 /\ hist[1].uninits = 0
    /\ render[1].pass.state = "failed"
    /\ render[1].draw = NULL

\* the graphics-API draw calls, and the one each draw procedure issues
DrawCalls == {"glDrawElements", "glDrawElementsInstanced", "glDrawArrays",
              "glDrawArraysInstanced"}

IndexedCalls == {"glDrawElements", "glDrawElementsInstanced"}

api_call(draw) ==
    CASE draw = "draw_elements" -> "glDrawElements"
      [] draw = "draw_elements_instanced" -> "glDrawElementsInstanced"
      [] draw = "draw_arrays" -> "glDrawArrays"
      [] draw = "draw_arrays_instanced" -> "glDrawArraysInstanced"
      [] OTHER -> NULL

\* the step is a call of render_draw on node n; what it adds to the log
draw_step(n) == last'.op = "draw" /\ last'.node = n /\ nb_calls' = nb_calls + 1

added == SubSeq(gl_log', Len(gl_log) + 1, Len(gl_log'))

\* the call was the pass bind, the draw procedure of n with its one
\* graphics-API draw call, the pass unbind, in that order
C6_Step ==
    \A n \in nodes :
        draw_step(n) =>
            LET draws == {i \in 1..Len(added) : added[i].call \in DrawCalls}
            IN /\ Len(added) >= 3
               /\ added[1] = pass_event("ngli_pass_bind", n)
               /\ added[Len(added)] = pass_event("ngli_pass_unbind", n)
               /\ Cardinality(draws) = 1
               /\ \A i \in draws : /\ added[i].call = api_call(render[n].draw)
                                   /\ added[i].node = n
               /\ \A i \in 2..(Len(added) - 1) :
                     i \notin draws => added[i].call = "glBindBuffer"
               /\ last'.ret = 0

\* C6: every render_draw performs pass bind, one invocation of the resolved
\* draw procedure (one graphics-API draw call), pass unbind, in that order,
\* whether or not bind or unbind fail, and returns no failure.
C6_BindDrawUnbind == [][C6_Step]_vars

\* a draw whose bind failed: the draw call and the unbind are in the log
C6_Witness ==
    /\ last.op = "draw"
    /\ last.env.pass_bind < 0
    /\ last.env.pass_unbind < 0
    /\ Len(gl_log) >= 3
    /\ gl_log[Len(gl_log) - 1].call \in DrawCalls
    /\ gl_log[Len(gl_log)].call = "ngli_pass_unbind"

C7_Step ==
    \A n \in nodes :
        draw_step(n) =>
            \A i \in 1..Len(added) :
                LET e == added[i]
                IN e.call \in DrawCalls =>
                      /\ e.call = api_call(render[n].draw)
                      /\ e.mode = gl_topology_of(geometry.topology)
                      /\ e.count = IF e.call \in IndexedCalls
                                   THEN buffers[geometry.indices_buffer].count
                                   ELSE buffers[geometry.vertices_buffer].count
                      /\ e.call \in IndexedCalls =>
                            e.type = gl_texture_format_type(hist[n].at_init.data_format)

C10_UpdateOrder ==
    last.op = "update" =>
        LET t == last.env.t
            env == last.env.ret
            geometry_update == [fn |-> "ngli_node_update", t |-> t]
            pass_update == [fn |-> "ngli_pass_update", t |-> t]
        IN IF env.node_update < 0
           THEN last.calls = << geometry_update >> /\ last.ret = env.node_update
           ELSE /\ last.calls = << geometry_update, pass_update >>
                /\ last.ret = env.pass_update

\* the geometry update failed and the pass was left alone
C10_Witness ==
    /\ last.op = "update"
    /\ last.ret = -1
    /\ last.env.ret.pass_update = -2
    /\ Len(last.calls) = 1


\* Position i opens a bind region closed at j: a pass bind of a node, its
\* unbind at j, and between them only that node's draw-procedure events
bind_region(i, j) ==
    /\ gl_log[i].call = "ngli_pass_bind"
    /\ gl_log[j].call = "ngli_pass_unbind"
    /\ gl_log[j].node = gl_log[i].node
    /\ \A k \in (i + 1)..(j - 1) :
          /\ gl_log[k].node = gl_log[i].node
          /\ gl_log[k].call \notin {"ngli_pass_bind", "ngli_pass_unbind"}

\* C11: with several render nodes drawn on one context by any sequence of
\* render_draw calls, every pass bind is followed by the unbind of the same
\* node with no bind, draw call or unbind of another node in between, and
\* every draw call and every unbind lies in the bind region of its own node:
\* the bind regions of two nodes never overlap.
C11_NoOverlap ==
    /\ \A i \in DOMAIN gl_log :
          gl_log[i].call = "ngli_pass_bind" =>
              \E j \in (i + 1)..Len(gl_log) : bind_region(i, j)
    /\ \A k \in DOMAIN gl_log :
          gl_log[k].call # "ngli_pass_bind" =>
              \E i \in 1..(k - 1), j \in k..Len(gl_log) : bind_region(i, j)

\* two nodes were drawn one after the other, the last draw with a pass
\* that failed to bind
C11_Witness ==
    /\ last.op = "draw"
    /\ \E i, j \in DOMAIN gl_log :
          /\ i < j
          /\ gl_log[i].call \in DrawCalls
          /\ gl_log[j].call \in DrawCalls
          /\ gl_log[i].node # gl_log[j].node
    /\ nb_draws = MaxCalls
    /\ last.errors = << "pass upload data error" >>


update_step(n) == last'.op = "update" /\ last'.node = n /\ nb_calls' = nb_calls + 1

\* The state render_init derives from the parameters
derived(s) ==
    [draw |-> s.draw, indices_type |-> s.indices_type,
     has_indices_buffer_ref |-> s.has_indices_buffer_ref,
     pass_attributes |-> s.pass_attributes, pass |-> s.pass,
     program |-> s.program, nb_instances |-> s.nb_instances]

C12_Step ==
    \A n \in nodes :
        /\ update_step(n) \/ draw_step(n) =>
               /\ derived(render'[n]) = derived(render[n])
               /\ refcount(buffers') = refcount(buffers)
        /\ update_step(n) =>
               /\ gl_log' = gl_log
               /\ call_draw(n, render'[n], geometry', buffers')
                      = call_draw(n, render[n], geometry, buffers)

\* C12: after a successful init, a render_update or a render_draw leaves
\* the derived state of the node as it was (draw procedure, indices_type,
\* has_indices_buffer_ref, pass_attributes, pass, program, nb_instances) and
\* takes or releases no index buffer reference; a render_update issues no
\* graphics-API call and leaves the call the next render_draw makes (its
\* procedure and arguments) as it was, so updating twice with one t before
\* a draw draws what updating once does.
C12_FrameUnchanged == [][C12_Step]_vars

\* init, an update, then a draw of the geometry as init saw it
C12_Witness ==
    /\ nb_calls = 3
    /\ last.op = "draw"
    /\ nb_draws = 1
    /\ seen(geometry, buffers) = hist[last.node].at_init
    /\ render[last.node].draw = "draw_elements"


\* The steps of a render_init that fails nowhere, in the order of the code,
\* for a node in state s: the two attribute validations, the creation and
\* attachment of the default program, the index buffer reference and index
\* type, the aggregation of the attributes, the pass
init_steps(s) ==
    << "check_attributes", "check_attributes" >>
    \o (IF s.program = NULL
        THEN << "ngl_node_create", "ngli_node_attach_ctx" >> ELSE <<>>)
    \o (IF indexed
        THEN << "ngli_node_buffer_ref", "ngli_format_get_gl_texture_format" >>
        ELSE <<>>)
    \o << "init_attributes", "ngli_pass_init" >>

is_prefix(p, q) == Len(p) <= Len(q) /\ p = SubSeq(q, 1, Len(p))

\* The messages of the capability checks and of the attribute validation
CapabilityErrors ==
    {"context does not support instanced draws",
     "context does not support instanced arrays"}

ValidationErrors ==
    {"attribute buffer count does not match vertices count",
     "attribute buffer count does not match instance count"}

C13_Step ==
    \A n \in nodes :
        init_step(n) =>
            LET steps == init_steps(render[n])
                done == last'.calls
            IN /\ is_prefix(done, steps)
               /\ last'.ret >= 0 => done = steps /\ render'[n].draw # NULL
               /\ last'.ret < 0 =>
                      /\ render'[n].draw = render[n].draw
                      /\ done = steps => last'.env.pass_init < 0
               /\ last'.report.msg \in CapabilityErrors => done = <<>>
               /\ last'.report.msg \in ValidationErrors =>
                      \A i \in DOMAIN done : done[i] = "check_attributes"
               /\ last'.report.msg \in CapabilityErrors \cup ValidationErrors =>
                      /\ last'.ret < 0
                      /\ render'[n] = render[n]
                      /\ buffers' = buffers
               /\ render'[n].pass # render[n].pass =>
                      /\ done = steps
                      /\ render'[n].program # NULL
                      /\ render'[n].pass_attributes # NULL_HMAP
                      /\ indexed =>
                             /\ render'[n].has_indices_buffer_ref = 1
                             /\ ~buffers'["indices"].block

\* C13: render_init runs its steps in the order capability checks,
\* attribute validation, default-program creation and attachment, index
\* buffer reference and block check, attribute aggregation, pass
\* initialization, draw-procedure selection, and stops at the first step that
\* fails: the collaborators it called are a prefix of that order; a failure
\* of a capability check or of the attribute validation leaves the program,
\* the index buffer's reference count, has_indices_buffer_ref,
\* pass_attributes and the pass as they were; the pass is initialized only
\* after every earlier step succeeded, and the draw procedure is selected
\* only when the pass initialized.
C13_InitOrder == [][C13_Step]_vars

\* an init with no program given stopped at the index buffer reference,
\* after the default program was created and attached
C13_Witness ==
    /\ last.op = "init" /\ last.ret < 0
    /\ last.calls = << "check_attributes", "check_attributes",
                       "ngl_node_create", "ngli_node_attach_ctx",
                       "ngli_node_buffer_ref" >>
    /\ render[last.node].program = "default_program"
    /\ render[last.node].pass = PASS_UNINIT


BlockError == "geometry indices buffers referencing a block are not supported"

\* node n was initialized once, without success, and then uninitialized once
failed_then_uninit(n) ==
    /\ last.op = "uninit" /\ last.node = n
    /\ hist[n].inits = 1 /\ hist[n].ok_inits = 0 /\ hist[n].uninits = 1

C14_Step ==
    \A n \in nodes :
        (init_step(n) /\ last'.report.msg = BlockError) =>
            /\ last'.ret < 0
            /\ refcount(buffers') = refcount(buffers) + 1
            /\ render'[n].has_indices_buffer_ref = 1

\* C14: for a node never initialized before and every point at which
\* render_init can fail, a failed render_init followed by exactly one
\* render_uninit leaves the reference count of the index buffer equal to its
\* value before the init; an index buffer referencing a block is rejected
\* after the reference was taken and has_indices_buffer_ref set, so that the
\* uninit releases it.
C14_FailedInitNoLeak ==
    /\ [](\A n \in nodes :
            failed_then_uninit(n) => refcount(buffers) = refcount(buffers0))
    /\ [][C14_Step]_vars

\* the index buffer referenced a block: the reference taken by the failed
\* init was released by the uninit
C14_Witness ==
    /\ failed_then_uninit(1)
    /\ buffers["indices"].block
    /\ hist[1].refs = 1 /\ hist[1].unrefs = 1
    /\ refcount(buffers) = refcount(buffers0)


\* C15: after render_uninit, from any state, the node is uninitialized with
\* no derived state left: pass_attributes is absent, the pass is torn down,
\* no index buffer reference is held and has_indices_buffer_ref records
\* none, no draw procedure and no index type remain resolved, as in a node
\* that was never initialized.
C15_UninitClears ==
    \A n \in nodes :
        (last.op = "uninit" /\ last.node = n) =>
            /\ state[n] = "uninitialized"
            /\ render[n].pass_attributes = NULL_HMAP
            /\ render[n].pass = PASS_UNINIT
            /\ hist[n].refs = hist[n].unrefs
            /\ render[n].has_indices_buffer_ref = 0
            /\ render[n].draw = NULL
            /\ render[n].indices_type = "0"


\* C16: after a successful render_init the program of the node is never
\* absent and is the program handed to the pass; a program given by the user
\* is kept and no default program is created; when none was given, a default
\* program was created, once over all the init/uninit cycles of the node, and
\* attached to the context before the pass was initialized.
C16_Program ==
    \A n \in nodes :
        state[n] = "initialized" =>
            /\ render[n].program # NULL
            /\ render[n].pass.program = render[n].program
            /\ hist[n].created <= 1
            /\ render[n].program = "user_program" => hist[n].created = 0
            /\ render[n].program = "default_program" =>
                   /\ hist[n].created = 1
                   /\ hist[n].attached = 1


InstancedProcs == {"draw_elements_instanced", "draw_arrays_instanced"}

\* the capability check of render_init takes the node for an instanced one:
\* on a context with no feature it asks for instanced draws
check_instanced(s) ==
    instancing_checks(s, {}) = "context does not support instanced draws"

\* the selection of the draw procedure takes the node for an instanced one
selection_instanced(s) == select_draw(s, geometry) \in InstancedProcs

\* C17: in every reachable state a node has an instanced draw procedure
\* resolved only on a context that supports instanced draws; a node whose
\* init succeeded with instance_attributes present is on a context that
\* supports instanced arrays; and for every nb_instances, negative ones
\* included, the capability check and the selection of the draw procedure
\* agree on whether the node is instanced.
C17_InstancedAgree ==
    \A n \in nodes :
        /\ render[n].draw \in InstancedProcs =>
               has_feature(NGLI_FEATURE_DRAW_INSTANCED)
        /\ (state[n] = "initialized"
               /\ render[n].instance_attributes # NULL_HMAP) =>
               has_feature(NGLI_FEATURE_INSTANCED_ARRAY)
        /\ inited(n) =>
               (check_instanced(render[n]) <=> selection_instanced(render[n]))

============================================================================
